---- MODULE Spec2Model ----
(***************************************************************************)
(* Egypt Sites API (src/main.py): the image_link normalizer                *)
(* Site.ensure_list_of_strings and the read endpoints that hydrate rows    *)
(* through it.                                                             *)
(*                                                                         *)
(* A text (Python str) is a sequence of one-character strings.  A Python   *)
(* value is a record [k, n, s, items]: k is the type tag, n the number of  *)
(* an int or bool, s the characters of a str (the key of a dict entry,     *)
(* the repr of a float), items the elements of a list or the entries of a  *)
(* dict.                                                                   *)
(*                                                                         *)
(* No text of the model holds a backslash or a tab, and none has a digit   *)
(* followed by ".", "e" or "E": string escapes and float literals are not  *)
(* scanned.  RecursionLimit stands for the depth at which CPython raises   *)
(* RecursionError while decoding nested arrays and objects (1000 frames by *)
(* default), scaled down to the length of the texts enumerated.            *)
(***************************************************************************)
EXTENDS Integers, Sequences, FiniteSets, TLC

VARIABLES
    v,        \* the raw image_link value handed to the validator
    out,      \* outcome of ensure_list_of_strings(v)
    out2,     \* outcome of the validator applied to its own result
    pc,       \* position of the validator run: "start", "done", "again"
    request,  \* last request served: endpoint and what the database did
    response  \* the response of that request

vars == <<v, out, out2, pc, request, response>>

----------------------------------------------------------------------------
(* Bounds *)

MaxTextLen == 4       \* texts over ShortChars are enumerated up to this length
MaxPad == 1           \* whitespace added on each side of a sample text
MaxListLen == 2       \* length of the native lists enumerated
MaxRows == 2          \* rows the database returns for one query
RecursionLimit == 2   \* nesting at which the interpreter raises RecursionError
                      \* while decoding (CPython's limit, scaled down)

----------------------------------------------------------------------------
(* Python values *)

NoneV == [k |-> "None", n |-> 0, s |-> <<>>, items |-> <<>>]

BoolV(b) == [k |-> "bool", n |-> IF b THEN 1 ELSE 0, s |-> <<>>, items |-> <<>>]

IntV(i) == [k |-> "int", n |-> i, s |-> <<>>, items |-> <<>>]

FloatV(r) == [k |-> "float", n |-> 0, s |-> r, items |-> <<>>]

StrV(t) == [k |-> "str", n |-> 0, s |-> t, items |-> <<>>]

ListV(xs) == [k |-> "list", n |-> 0, s |-> <<>>, items |-> xs]

\* one entry of a dict: the key's characters and the value
EntryV(key, val) == [k |-> "entry", n |-> 0, s |-> key, items |-> <<val>>]

DictV(es) == [k |-> "dict", n |-> 0, s |-> <<>>, items |-> es]

----------------------------------------------------------------------------
(* Characters *)

Digits == <<"0", "1", "2", "3", "4", "5", "6", "7", "8", "9">>

UpperLetters == <<"A", "B", "C", "D", "E", "F", "G", "H", "I", "J", "K", "L", "M",
                  "N", "O", "P", "Q", "R", "S", "T", "U", "V", "W", "X", "Y", "Z">>

LowerLetters == <<"a", "b", "c", "d", "e", "f", "g", "h", "i", "j", "k", "l", "m",
                  "n", "o", "p", "q", "r", "s", "t", "u", "v", "w", "x", "y", "z">>

IsDigit(c) == \E i \in DOMAIN Digits : Digits[i] = c

DigitVal(c) == (CHOOSE i \in DOMAIN Digits : Digits[i] = c) - 1

\* str.isspace for the characters str.strip() removes
IsSpace(c) == c \in {" ", "\n", "\r", "\f"}

\* the whitespace the JSON decoder skips
IsJsonSpace(c) == c \in {" ", "\n", "\r"}

\* characters a JSON string may not hold unescaped
IsControl(c) == c \in {"\n", "\r", "\f"}

LowerChar(c) ==
    IF \E i \in DOMAIN UpperLetters : UpperLetters[i] = c
    THEN LowerLetters[CHOOSE i \in DOMAIN UpperLetters : UpperLetters[i] = c]
    ELSE c

----------------------------------------------------------------------------
(* str methods *)

\* v.strip(): the text without its leading and trailing whitespace
Strip(t) ==
    LET keep == {i \in 1..Len(t) : ~IsSpace(t[i])}
    IN  IF keep = {} THEN <<>>
        ELSE LET first == CHOOSE i \in keep : \A j \in keep : i <= j
                 last == CHOOSE i \in keep : \A j \in keep : j <= i
             IN  SubSeq(t, first, last)

\* mutation: the null marker is compared without lower()
LowerSkipped(t) == t

\* v.lower()
Lower(t) == [i \in 1..Len(t) |-> LowerChar(t[i])]

----------------------------------------------------------------------------
(* str(item) *)

RECURSIVE IntText(_)
\* str of an int: its decimal digits
IntText(i) ==
    IF i < 0 THEN <<"-">> \o IntText(0 - i)
    ELSE IF i < 10 THEN <<Digits[i + 1]>>
    ELSE IntText(i \div 10) \o <<Digits[(i % 10) + 1]>>

\* one character of a str inside repr(), q the quote repr chose
ReprChar(c, q) ==
    IF c = q \/ c = "\\" THEN <<"\\", c>>
    ELSE IF c = "\n" THEN <<"\\", "n">>
    ELSE IF c = "\r" THEN <<"\\", "r">>
    ELSE IF c = "\f" THEN <<"\\", "x", "0", "c">>
    ELSE <<c>>

RECURSIVE ReprChars(_, _)
ReprChars(t, q) ==
    IF t = <<>> THEN <<>> ELSE ReprChar(Head(t), q) \o ReprChars(Tail(t), q)

\* repr of a str: single quotes, double quotes when it holds only single ones
ReprStr(t) ==
    LET has(c) == \E i \in 1..Len(t) : t[i] = c
        q == IF has("'") /\ ~has("\"") THEN "\"" ELSE "'"
    IN  <<q>> \o ReprChars(t, q) \o <<q>>

RECURSIVE Str(_), Repr(_), JoinRepr(_)

\* repr(x), as str() of a list or dict shows its elements
Repr(x) == IF x.k = "str" THEN ReprStr(x.s) ELSE Str(x)

\* ", ".join of the reprs of list elements or of "key: value" dict entries
JoinRepr(xs) ==
    IF xs = <<>> THEN <<>>
    ELSE LET h == Head(xs)
             one == IF h.k = "entry"
                    THEN ReprStr(h.s) \o <<":", " ">> \o Repr(h.items[1])
                    ELSE Repr(h)
         IN  IF Len(xs) = 1 THEN one
             ELSE one \o <<",", " ">> \o JoinRepr(Tail(xs))

\* str(item): the text Python's str() gives for a value
Str(x) ==
    CASE x.k = "None" -> <<"N", "o", "n", "e">>
      [] x.k = "bool" -> IF x.n = 1 THEN <<"T", "r", "u", "e">>
                         ELSE <<"F", "a", "l", "s", "e">>
      [] x.k = "int" -> IntText(x.n)
      [] x.k = "float" -> x.s
      [] x.k = "str" -> x.s
      [] x.k = "list" -> <<"[">> \o JoinRepr(x.items) \o <<"]">>
      [] x.k = "dict" -> <<"{">> \o JoinRepr(x.items) \o <<"}">>

\* mutation: the elements are returned as they are, without str()
StrListRaw(xs) == ListV(xs)

\* mutation: repr(item) in place of str(item)
StrListRepr(xs) == ListV([i \in 1..Len(xs) |-> StrV(Repr(xs[i]))])

\* mutation: str(item).strip() in place of str(item)
StrListTrim(xs) == ListV([i \in 1..Len(xs) |-> StrV(Strip(Str(xs[i])))])

\* [str(item) for item in xs]
StrList(xs) == ListV([i \in 1..Len(xs) |-> StrV(Str(xs[i]))])

----------------------------------------------------------------------------
(* json.loads *)

Ok(val, pos) == [st |-> "ok", val |-> val, pos |-> pos]

Err(exc) == [st |-> exc, val |-> NoneV, pos |-> 0]

\* the text holds the word w at position i
MatchAt(t, i, w) == i + Len(w) - 1 <= Len(t) /\ SubSeq(t, i, i + Len(w) - 1) = w

\* the first position at or after i that holds no JSON whitespace
SkipWs(t, i) ==
    CHOOSE j \in i..(Len(t) + 1) :
        /\ j = Len(t) + 1 \/ ~IsJsonSpace(t[j])
        /\ \A m \in i..(j - 1) : IsJsonSpace(t[m])

\* a string literal whose opening quote is just before i
ScanString(t, i) ==
    LET quotes == {j \in i..Len(t) : t[j] = "\""}
    IN  IF quotes = {} THEN Err("JSONDecodeError")
        ELSE LET close == CHOOSE j \in quotes : \A m \in quotes : j <= m
             IN  IF \E m \in i..(close - 1) : IsControl(t[m])
                 THEN Err("JSONDecodeError")
                 ELSE Ok(StrV(SubSeq(t, i, close - 1)), close + 1)

RECURSIVE DigitsValue(_, _, _)
\* int() of the digits t[a..b]
DigitsValue(t, a, b) ==
    IF b < a THEN 0 ELSE DigitsValue(t, a, b - 1) * 10 + DigitVal(t[b])

\* an integer literal at i: -?(0|[1-9][0-9]*)
ScanNumber(t, i) ==
    LET neg == i <= Len(t) /\ t[i] = "-"
        a == IF neg THEN i + 1 ELSE i
    IN  IF a > Len(t) \/ ~IsDigit(t[a]) THEN Err("JSONDecodeError")
        ELSE LET b == IF t[a] = "0" THEN a
                      ELSE CHOOSE j \in a..Len(t) :
                               /\ \A m \in a..j : IsDigit(t[m])
                               /\ j = Len(t) \/ ~IsDigit(t[j + 1])
                 val == DigitsValue(t, a, b)
             IN  Ok(IntV(IF neg THEN 0 - val ELSE val), b + 1)

\* dict[key] = val: a repeated key keeps its place and takes the new value
DictPut(es, key, val) ==
    IF \E i \in 1..Len(es) : es[i].s = key
    THEN LET i == CHOOSE j \in 1..Len(es) : es[j].s = key
         IN  [es EXCEPT ![i] = EntryV(key, val)]
    ELSE Append(es, EntryV(key, val))

RECURSIVE ScanOnce(_, _, _), ParseArray(_, _, _, _), ParseObject(_, _, _, _)

\* the elements of an array from position i on, acc the elements before
ParseArray(t, i, d, acc) ==
    LET r == ScanOnce(t, i, d)
    IN  IF r.st # "ok" THEN r
        ELSE LET j == SkipWs(t, r.pos)
                 xs == Append(acc, r.val)
             IN  IF j > Len(t) THEN Err("JSONDecodeError")
                 ELSE IF t[j] = "]" THEN Ok(ListV(xs), j + 1)
                 ELSE IF t[j] = "," THEN ParseArray(t, SkipWs(t, j + 1), d, xs)
                 ELSE Err("JSONDecodeError")

\* the entries of an object from position i on, acc the entries before
ParseObject(t, i, d, acc) ==
    IF i > Len(t) \/ t[i] # "\"" THEN Err("JSONDecodeError")
    ELSE LET key == ScanString(t, i + 1)
         IN  IF key.st # "ok" THEN key
             ELSE LET c == SkipWs(t, key.pos)
                  IN  IF c > Len(t) \/ t[c] # ":" THEN Err("JSONDecodeError")
                      ELSE LET r == ScanOnce(t, SkipWs(t, c + 1), d)
                           IN  IF r.st # "ok" THEN r
                               ELSE LET j == SkipWs(t, r.pos)
                                        es == DictPut(acc, key.val.s, r.val)
                                    IN  IF j > Len(t) THEN Err("JSONDecodeError")
                                        ELSE IF t[j] = "}" THEN Ok(DictV(es), j + 1)
                                        ELSE IF t[j] = ","
                                        THEN ParseObject(t, SkipWs(t, j + 1), d, es)
                                        ELSE Err("JSONDecodeError")

\* one JSON value at position i, d arrays and objects deep
ScanOnce(t, i, d) ==
    IF i > Len(t) THEN Err("JSONDecodeError")
    ELSE IF t[i] = "\"" THEN ScanString(t, i + 1)
    ELSE IF t[i] = "{" THEN
        IF d >= RecursionLimit THEN Err("RecursionError")
        ELSE LET j == SkipWs(t, i + 1)
             IN  IF j <= Len(t) /\ t[j] = "}" THEN Ok(DictV(<<>>), j + 1)
                 ELSE ParseObject(t, j, d + 1, <<>>)
    ELSE IF t[i] = "[" THEN
        IF d >= RecursionLimit THEN Err("RecursionError")
        ELSE LET j == SkipWs(t, i + 1)
             IN  IF j <= Len(t) /\ t[j] = "]" THEN Ok(ListV(<<>>), j + 1)
                 ELSE ParseArray(t, j, d + 1, <<>>)
    ELSE IF MatchAt(t, i, <<"n", "u", "l", "l">>) THEN Ok(NoneV, i + 4)
    ELSE IF MatchAt(t, i, <<"t", "r", "u", "e">>) THEN Ok(BoolV(TRUE), i + 4)
    ELSE IF MatchAt(t, i, <<"f", "a", "l", "s", "e">>) THEN Ok(BoolV(FALSE), i + 5)
    ELSE IF MatchAt(t, i, <<"N", "a", "N">>) THEN Ok(FloatV(<<"n", "a", "n">>), i + 3)
    ELSE IF MatchAt(t, i, <<"I", "n", "f", "i", "n", "i", "t", "y">>)
        THEN Ok(FloatV(<<"i", "n", "f">>), i + 8)
    ELSE IF MatchAt(t, i, <<"-", "I", "n", "f", "i", "n", "i", "t", "y">>)
        THEN Ok(FloatV(<<"-", "i", "n", "f">>), i + 9)
    ELSE ScanNumber(t, i)

\* json.loads(t): one value, then nothing but whitespace
JsonLoads(t) ==
    LET r == ScanOnce(t, SkipWs(t, 1), 0)
    IN  IF r.st # "ok" THEN r
        ELSE IF SkipWs(t, r.pos) # Len(t) + 1 THEN Err("JSONDecodeError")
        ELSE r

----------------------------------------------------------------------------
(* Site.ensure_list_of_strings *)

Return(val) == [kind |-> "return", val |-> val, exc |-> "none"]

Raise(exc) == [kind |-> "raise", val |-> NoneV, exc |-> exc]

\* the word "null"
NullWord == <<"n", "u", "l", "l">>

\* mutation: the parsed value is not tested for being a list
FromJsonWrap(t, parsed) ==
    IF parsed.st = "ok" \/ parsed.st = "JSONDecodeError"
    THEN Return(ListV(<<StrV(t)>>))
    ELSE Raise(parsed.st)

\* the try block on the stripped text t, parsed being what json.loads(t) did
FromJson(t, parsed) ==
    IF parsed.st = "ok"
    THEN IF parsed.val.k = "list"
         THEN Return(StrList(parsed.val.items))
         ELSE Return(ListV(<<StrV(t)>>))
    ELSE IF parsed.st = "JSONDecodeError"
    THEN Return(ListV(<<StrV(t)>>))
    ELSE Raise(parsed.st)

\* the str branch: strip, the empty and "null" markers, then JSON
FromStr(s) ==
    LET t == Strip(s)
    IN  IF t = <<>> \/ Lower(t) = NullWord THEN Return(ListV(<<>>))
        ELSE FromJson(t, JsonLoads(t))

\* mutation: a value of an unexpected type is wrapped, not dropped
ensure_wrap_other(x) ==
    IF x.k = "None" THEN Return(ListV(<<>>))
    ELSE IF x.k = "list" THEN Return(StrList(x.items))
    ELSE IF x.k = "str" THEN FromStr(x.s)
    ELSE Return(ListV(<<StrV(Str(x))>>))

\* the validator of image_link (mode='before')
ensure_list_of_strings(x) ==
    IF x.k = "None" THEN Return(ListV(<<>>))
    ELSE IF x.k = "list" THEN Return(StrList(x.items))
    ELSE IF x.k = "str" THEN FromStr(x.s)
    ELSE Return(ListV(<<>>))

----------------------------------------------------------------------------
(* Raw image_link values *)

\* characters of the texts enumerated exhaustively
ShortChars == {" ", "[", "]", ",", "\"", "a", "1"}

ShortTexts == UNION {[1..len -> ShortChars] : len \in 0..MaxTextLen}

\* texts in the encodings the column holds: JSON array text, legacy plain
\* text, null markers, other JSON values, malformed JSON
SampleTexts ==
    { <<"[", "\"", "x", ".", "j", "p", "g", "\"", ",",
        "\"", "y", ".", "j", "p", "g", "\"", "]">>,
      <<"x", ".", "j", "p", "g">>,
      <<"\"", "x", ".", "j", "p", "g", "\"">>,
      <<"4", "2">>,
      <<"n", "o", "t", " ", "j", "s", "o", "n", " ", "{">>,
      <<"n", "u", "l", "l">>,
      <<"N", "U", "L", "L">>,
      <<"N", "u", "l", "l">>,
      <<"n", "u", "l", "l", "s">>,
      <<"t", "r", "u", "e">>,
      <<"N", "a", "N">>,
      <<"-", "0">>,
      <<"0", "1">>,
      <<"[", "1", ",", "2", "]">>,
      <<"[", " ", "1", "0", " ", ",", "\n", "-", "7", " ", "]">>,
      <<"[", "n", "u", "l", "l", ",", "t", "r", "u", "e", ",", "-", "0", "]">>,
      <<"[", "[", "1", "]", ",", "\"", "a", "\"", ",", "{", "}", "]">>,
      <<"[", "\"", " ", "a", " ", "\"", "]">>,
      <<"[", "1", ",", "]">>,
      <<"[", "\f", "1", "]">>,
      <<"[", "\"", "a", "\n", "\"", "]">>,
      <<"{", "}">>,
      <<"{", "\"", "a", "\"", ":", "1", "}">>,
      <<"[", "{", "\"", "a", "\"", ":", "1", ",", "\"", "a", "\"", ":", "\"", "b",
        "\"", "}", "]">>,
      <<"{", "\"", "a", "\"", " ", "1", "}">> }

\* more arrays open than the decoder descends into, unclosed and closed
DeepOpen == [i \in 1..(RecursionLimit + 1) |-> "["]

DeepClosed == DeepOpen \o [i \in 1..(RecursionLimit + 1) |-> "]"]

Pads == UNION {[1..len -> {" ", "\n"}] : len \in 0..MaxPad}

PaddedTexts ==
    {l \o t \o r : l \in Pads, r \in Pads, t \in SampleTexts \cup {DeepOpen, DeepClosed}}

Texts == ShortTexts \cup PaddedTexts

\* elements of a native list
NativeElems ==
    { NoneV, BoolV(TRUE), IntV(1), IntV(2), IntV(-30),
      StrV(<<"x", ".", "j", "p", "g">>),
      StrV(<<" ", "a", " ">>),
      StrV(<<"[", "1", "]">>),
      StrV(<<>>),
      ListV(<<StrV(<<"a">>), IntV(1)>>),
      DictV(<<EntryV(<<"a">>, IntV(1))>>) }

NativeLists == UNION {[1..len -> NativeElems] : len \in 0..MaxListLen}

\* values that are neither None, a list nor a str
OtherValues ==
    { BoolV(TRUE), BoolV(FALSE), IntV(5), FloatV(<<"1", ".", "5">>),
      DictV(<<>>), DictV(<<EntryV(<<"a">>, IntV(1))>>) }

RawValues ==
    {NoneV} \cup OtherValues \cup {ListV(xs) : xs \in NativeLists}
            \cup {StrV(t) : t \in Texts}

----------------------------------------------------------------------------
(* The validator as a process: one run, then a run on its own result *)

NoResult == [kind |-> "none", val |-> NoneV, exc |-> "none"]

NoRequest == [endpoint |-> "none", raised |-> FALSE, data |-> <<>>]

NoResponse == [code |-> 0, status |-> "none", data |-> <<>>, count |-> 0]

Init ==
    /\ v \in RawValues
    /\ pc = "start"
    /\ out = NoResult
    /\ out2 = NoResult
    /\ request = NoRequest
    /\ response = NoResponse

\* pydantic runs the validator on the raw value
Validate ==
    /\ pc = "start"
    /\ out' = ensure_list_of_strings(v)
    /\ pc' = "done"
    /\ UNCHANGED <<v, out2, request, response>>

\* the validator runs again on the value it returned
Revalidate ==
    /\ pc = "done"
    /\ out.kind = "return"
    /\ out2' = ensure_list_of_strings(out.val)
    /\ pc' = "again"
    /\ UNCHANGED <<v, out, request, response>>

Next == Validate \/ Revalidate

Spec == Init /\ [][Next]_vars

----------------------------------------------------------------------------
(* The endpoints.  A row of egypt_sites is [id, fields_ok, image_link];    *)
(* fields_ok says that the fields other than image_link pass the model's   *)
(* validation.  A row of places_instructions is [id, fields_ok].  A query  *)
(* is abstracted to its outcome: execute() raises, or returns rows.        *)

RowIds == {1, 2}

\* image_link values stored in the table, one of each encoding
StoredValues ==
    { NoneV,
      IntV(5),
      ListV(<<StrV(<<"a">>), IntV(1)>>),
      StrV(<<"[", "\"", "a", "\"", "]">>),
      StrV(<<"n", "o", "t", " ", "j", "s", "o", "n", " ", "{">>),
      StrV(<<" ", "N", "U", "L", "L", " ">>),
      StrV(DeepOpen) }

SiteRows == [id : RowIds, fields_ok : BOOLEAN, image_link : StoredValues]

InstructionRows == [id : RowIds, fields_ok : BOOLEAN]

Batches(rows) == UNION {[1..len -> rows] : len \in 0..MaxRows}

\* outcome of running a handler's try body, and of the handler
Returned(data, count) ==
    [kind |-> "return", exc |-> "none", code |-> 200, data |-> data, count |-> count]

Raised(exc, code) ==
    [kind |-> "raise", exc |-> exc, code |-> code, data |-> <<>>, count |-> 0]

\* Site(**row): the other fields are validated, image_link goes through the
\* validator; an error of the validator leaves the constructor
SiteCtor(row) ==
    IF ~row.fields_ok THEN Raised("ValidationError", 0)
    ELSE LET r == ensure_list_of_strings(row.image_link)
         IN  IF r.kind = "raise" THEN Raised(r.exc, 0)
             ELSE Returned(<<[id |-> row.id, image_link |-> r.val]>>, 1)

\* Instruction(**row)
InstructionCtor(row) ==
    IF ~row.fields_ok THEN Raised("ValidationError", 0)
    ELSE Returned(<<[id |-> row.id]>>, 1)

\* a list comprehension over constructor outcomes: the first that raised
\* ends it, else the list of the records built
Collect(made) ==
    LET bad == {i \in 1..Len(made) : made[i].kind = "raise"}
    IN  IF bad # {}
        THEN made[CHOOSE i \in bad : \A j \in bad : i <= j]
        ELSE Returned([i \in 1..Len(made) |-> made[i].data[1]], Len(made))

\* [Site(**site) for site in response.data]
SiteList(rows) == Collect([i \in 1..Len(rows) |-> SiteCtor(rows[i])])

\* return {"status": "success", "data": sites, "count": len(sites)}
Counted(sites) ==
    IF sites.kind = "raise" THEN sites
    ELSE Returned(sites.data, Len(sites.data))

\* except Exception: raise HTTPException(status_code=500)
ExceptAll(b) ==
    IF b.kind = "raise" THEN Raised("HTTPException", 500) ELSE b

\* mutation: no "except HTTPException: raise" before the generic handler
ExceptLookupNoReraise(b) ==
    IF b.kind = "raise" THEN Raised("HTTPException", 500) ELSE b

\* except HTTPException: raise / except Exception: raise HTTPException(500)
ExceptLookup(b) ==
    IF b.kind = "raise" /\ b.exc = "HTTPException" THEN b
    ELSE IF b.kind = "raise" THEN Raised("HTTPException", 500)
    ELSE b

\* what the client receives: the returned dict, or the HTTPException's status
Respond(b) ==
    IF b.kind = "return"
    THEN [code |-> 200, status |-> "success", data |-> b.data, count |-> b.count]
    ELSE [code |-> b.code, status |-> "error", data |-> <<>>, count |-> 0]

\* try body of get_all_sites
AllSitesBody(raised, rows) ==
    IF raised THEN Raised("Exception", 0)
    ELSE Counted(SiteList(rows))

\* try body of get_site_by_id
SiteByIdBody(raised, rows) ==
    IF raised THEN Raised("Exception", 0)
    ELSE IF rows = <<>> THEN Raised("HTTPException", 404)
    ELSE SiteCtor(rows[1])

\* try body of get_sites_by_category
SitesByCategoryBody(raised, rows) ==
    IF raised THEN Raised("Exception", 0)
    ELSE IF rows = <<>> THEN Raised("HTTPException", 404)
    ELSE Counted(SiteList(rows))

\* try body of get_instruction_by_id
InstructionByIdBody(raised, rows) ==
    IF raised THEN Raised("Exception", 0)
    ELSE IF rows = <<>> THEN Raised("HTTPException", 404)
    ELSE InstructionCtor(rows[1])

\* one request is served per behaviour: the handlers share no state, so
\* what a request ends in does not depend on the requests before it
Serve(endpoint, raised, rows, outcome) ==
    /\ request = NoRequest
    /\ request' = [endpoint |-> endpoint, raised |-> raised, data |-> rows]
    /\ response' = Respond(outcome)
    /\ UNCHANGED <<v, out, out2, pc>>

\* GET /sites
get_all_sites ==
    \E raised \in BOOLEAN, rows \in Batches(SiteRows) :
        /\ raised => rows = <<>>
        /\ Serve("get_all_sites", raised, rows, ExceptAll(AllSitesBody(raised, rows)))

\* GET /site/{site_id}
get_site_by_id ==
    \E raised \in BOOLEAN, rows \in Batches(SiteRows) :
        /\ raised => rows = <<>>
        /\ Serve("get_site_by_id", raised, rows,
                 ExceptLookup(SiteByIdBody(raised, rows)))

\* GET /category/{category_name}
get_sites_by_category ==
    \E raised \in BOOLEAN, rows \in Batches(SiteRows) :
        /\ raised => rows = <<>>
        /\ Serve("get_sites_by_category", raised, rows,
                 ExceptLookup(SitesByCategoryBody(raised, rows)))

\* GET /instructions/{instruction_id}
get_instruction_by_id ==
    \E raised \in BOOLEAN, rows \in Batches(InstructionRows) :
        /\ raised => rows = <<>>
        /\ Serve("get_instruction_by_id", raised, rows,
                 ExceptLookup(InstructionByIdBody(raised, rows)))

InitApi ==
    /\ v = NoneV
    /\ pc = "start"
    /\ out = NoResult
    /\ out2 = NoResult
    /\ request = NoRequest
    /\ response = NoResponse

NextApi ==
    \/ get_all_sites
    \/ get_site_by_id
    \/ get_sites_by_category
    \/ get_instruction_by_id

SpecApi == InitApi /\ [][NextApi]_vars

----------------------------------------------------------------------------
(* Properties of the validator, checked under Spec *)

IsStrList(x) == x.k = "list" /\ \A i \in 1..Len(x.items) : x.items[i].k = "str"

NoImages == Return(ListV(<<>>))

XJpg == <<"x", ".", "j", "p", "g">>

YJpg == <<"y", ".", "j", "p", "g">>

TwoFilesText == <<"[", "\"">> \o XJpg \o <<"\"", ",", "\"">> \o YJpg \o <<"\"", "]">>

\* the stripped text is empty or spells "null" in some letter casing
IsNullMarker(t) ==
    \/ t = <<>>
    \/ /\ Len(t) = 4
       /\ t[1] \in {"n", "N"}
       /\ t[2] \in {"u", "U"}
       /\ t[3] \in {"l", "L"}
       /\ t[4] \in {"l", "L"}

\* C1: whatever the shape of the raw value, a value the validator returns is
\* a list whose every element is a string: never None, never a bare string,
\* never another non-list value.
C1_ResultIsListOfStrings ==
    (pc # "start" /\ out.kind = "return") => IsStrList(out.val)

C1_Witness ==
    /\ pc = "done"
    /\ v = ListV(<<NoneV, IntV(1)>>)
    /\ out.kind = "return"
    /\ Len(out.val.items) = 2

\* C2: the validator never raises: for every raw value, malformed JSON text
\* included, the run ends in a returned value.
C2_NeverRaises == pc # "start" => out.kind = "return"

\* C3: idempotence: the validator applied to the list it returned returns
\* that same list, same elements in the same order.
C3_Idempotent == pc = "again" => out2 = out

C3_Witness ==
    /\ pc = "again"
    /\ v = ListV(<<StrV(<<" ", "a", " ">>), IntV(1)>>)
    /\ out2.val.items = <<StrV(<<" ", "a", " ">>), StrV(<<"1">>)>>

\* C4: a text whose stripped form is not empty, not "null", and parses as a
\* JSON array gives the array's elements, in order and as many, each as
\* str() shows it; the text of an array of two file names gives the two names.
C4_JsonArrayText ==
    (pc # "start" /\ v.k = "str") =>
        LET t == Strip(v.s)
            parsed == JsonLoads(t)
        IN  (~IsNullMarker(t) /\ parsed.st = "ok" /\ parsed.val.k = "list") =>
                /\ out.kind = "return"
                /\ out.val.k = "list"
                /\ Len(out.val.items) = Len(parsed.val.items)
                /\ \A i \in 1..Len(parsed.val.items) :
                       out.val.items[i] = StrV(Str(parsed.val.items[i]))
                /\ t = TwoFilesText => out.val.items = <<StrV(XJpg), StrV(YJpg)>>

C4_Witness ==
    /\ pc = "done"
    /\ v = StrV(<<" ">> \o TwoFilesText \o <<"\n">>)
    /\ out.val.items = <<StrV(XJpg), StrV(YJpg)>>

\* C5: a text whose stripped form is not empty and not "null", and either
\* parses as a JSON value that is not an array or fails to parse as JSON,
\* gives the one-element list holding the stripped text.
C5_WrapsStrippedText ==
    (pc # "start" /\ v.k = "str") =>
        LET t == Strip(v.s)
            parsed == JsonLoads(t)
        IN  (~IsNullMarker(t) /\ ~(parsed.st = "ok" /\ parsed.val.k = "list")) =>
                out = Return(ListV(<<StrV(t)>>))

\* C6: a text that is empty or "null" in any letter casing once stripped
\* gives what None gives, the empty list; the test comes before JSON parsing
\* ("null" is JSON, and would be wrapped as a non-array value after it).
C6_NullMarkerText ==
    (pc # "start" /\ v.k = "str" /\ IsNullMarker(Strip(v.s))) =>
        /\ out = NoImages
        /\ out = ensure_list_of_strings(NoneV)

C6_Witness ==
    /\ pc = "done"
    /\ v = StrV(<<" ", "N", "U", "L", "L", " ">>)
    /\ out = NoImages

\* C7: a native list gives a list as long, in the same order, each element
\* the str() of the input's: strings unchanged (not stripped, not parsed),
\* numbers as their digits, the empty list what None gives.
C7_NativeList ==
    (pc # "start" /\ v.k = "list") =>
        /\ out.kind = "return"
        /\ out.val.k = "list"
        /\ Len(out.val.items) = Len(v.items)
        /\ \A i \in 1..Len(v.items) :
               LET x == v.items[i]
                   y == out.val.items[i]
               IN  /\ y.k = "str"
                   /\ y.s = Str(x)
                   /\ x.k = "str" => y = x
                   /\ x = IntV(1) => y.s = <<"1">>
                   /\ x = IntV(2) => y.s = <<"2">>
                   /\ x = IntV(-30) => y.s = <<"-", "3", "0">>
        /\ v.items = <<>> => out = ensure_list_of_strings(NoneV)

C7_Witness ==
    /\ pc = "done"
    /\ v = ListV(<<IntV(1), IntV(2)>>)
    /\ out.val.items = <<StrV(<<"1">>), StrV(<<"2">>)>>

\* C8: None, and any value that is neither a list nor a str (an int, a
\* bool, a dict), gives the empty list.
C8_NoneAndOtherTypes ==
    (pc # "start" /\ v.k \notin {"list", "str"}) => out = NoImages

C8_Witness ==
    /\ pc = "done"
    /\ v = IntV(5)
    /\ out = NoImages

----------------------------------------------------------------------------
(* Properties of the endpoints, checked under SpecApi *)

\* C9: GET /sites, the query having returned rows whose other fields are
\* valid: whatever the image_link values, the response is a success, holds
\* one Site per row in the rows' order, each image_link a list of strings,
\* and count is the number of Sites.
C9_AllSitesAlwaysSucceeds ==
    (/\ request.endpoint = "get_all_sites"
     /\ ~request.raised
     /\ \A i \in 1..Len(request.data) : request.data[i].fields_ok) =>
        /\ response.code = 200
        /\ response.status = "success"
        /\ Len(response.data) = Len(request.data)
        /\ response.count = Len(response.data)
        /\ \A i \in 1..Len(response.data) :
               /\ response.data[i].id = request.data[i].id
               /\ IsStrList(response.data[i].image_link)

Lookups == {"get_site_by_id", "get_sites_by_category", "get_instruction_by_id"}

\* record construction raises for the rows the handler builds records from
CtorRaises(endpoint, rows) ==
    IF endpoint = "get_site_by_id" THEN SiteCtor(rows[1]).kind = "raise"
    ELSE IF endpoint = "get_sites_by_category"
    THEN \E i \in 1..Len(rows) : SiteCtor(rows[i]).kind = "raise"
    ELSE ~rows[1].fields_ok

\* C10: a lookup ends in exactly one of 404, 500 and success: 404 when the
\* query returned no rows (never turned into 500), 500 when the query or the
\* record construction raised, success otherwise and never from no rows.
C10_LookupOutcomes ==
    request.endpoint \in Lookups =>
        LET norows == ~request.raised /\ request.data = <<>>
            failed == \/ request.raised
                      \/ /\ request.data # <<>>
                         /\ CtorRaises(request.endpoint, request.data)
        IN  /\ response.code \in {404, 500, 200}
            /\ response.code = 404 <=> norows
            /\ response.code = 500 <=> failed
            /\ response.code = 200 <=> (~norows /\ ~failed)
            /\ response.status = "success" <=> response.code = 200
            /\ response.status = "success" => request.data # <<>>

C10_Witness ==
    /\ request.endpoint = "get_site_by_id"
    /\ ~request.raised
    /\ request.data = <<>>
    /\ response.code = 404

====
